---------------------------- MODULE Spec2Model ----------------------------
(***************************************************************************)
(* Lookup-and-cache layer of ipv6request.go: the TTL cache (Cache.Get,     *)
(* Cache.Set), the retrying fetcher (retryWithBackoff), the three lookups  *)
(* (lookupASNByIP, lookupASNDetails, lookupIPv6) and formHandler.          *)
(*                                                                         *)
(* Strings are sequences of tokens, so that "asn_" + asn is sequence       *)
(* concatenation and two keys are equal exactly when the Go strings are.   *)
(* Cache values carry their dynamic Go type, as interface{} values do.     *)
(***************************************************************************)
EXTENDS Integers, Sequences, FiniteSets, TLC

VARIABLES
    data,       \* Cache.data: the map, a function whose DOMAIN is the key set
    now,        \* the monotonic clock read by time.Now / time.Since
    hist,       \* history: per key, the Set calls made on it, oldest first
    last,       \* history: the cache call that was made last, with its result
    fetch,      \* per handler, the frame of its retryWithBackoff call
    hd,         \* per handler, the frame of formHandler and of its lookup call
    lookups,    \* the number of lookup calls the accepted requests make
    mu,         \* Cache.mu: the goroutines that hold or have claimed the lock
    call,       \* per caller of the locked cache, the frame of its Get or Set
    req         \* the request a bare getClientIP call is made on, and its result

cacheVars == <<data, now, hist, last>>

lockVars == <<mu, call>>

vars == <<data, now, hist, last, fetch, hd, lookups, mu, call, req>>

-----------------------------------------------------------------------------
(* Bounds of the model. *)

\* The clock runs from 0 to MaxTime.
MaxTime == 4
\* The ttl arguments a caller of the bare cache passes range over 0..MaxTtl.
MaxTtl == 2
\* At most MaxSets Set calls are made on the bare cache in one run.
MaxSets == 2
\* The maxRetries argument of a bare retryWithBackoff call ranges over
\* 1..MaxAttempts (the lookups always pass 3).
MaxAttempts == 4
\* The requests the server accepts in one run make at most MaxLookups lookup
\* calls.
MaxLookups == 4
\* The X-Forwarded-For header of a bare getClientIP call has at most MaxHeader
\* characters.
MaxHeader == 3
\* The clock of the concurrent server runs from 0 to MaxConcTime.
MaxConcTime == 1

-----------------------------------------------------------------------------
(* Values and keys. *)

\* The nil interface value Get returns on a miss.
Nil == [type |-> "nil", val |-> <<>>]

\* A []string value.
Strings(s) == [type |-> "[]string", val |-> s]

\* The keys and values the callers of the bare cache use.
CacheKeys == {<<"asn_", "64500">>, <<"ip_", "a">>}
CacheValues == {Strings(<<>>), Strings(<<"p1">>)}

-----------------------------------------------------------------------------
(* Cache (src/ipv6request.go:26-66). *)

\* CacheEntry{value, timestamp, ttl}
CacheEntry(value, timestamp, ttl) ==
    [value |-> value, timestamp |-> timestamp, ttl |-> ttl]

\* time.Since(t): the time elapsed on the clock since t.
Since(t) == now - t

\* A plausible slip in Get: an entry whose age equals its ttl counts as expired.
ExpiredAtTtl(entry) == Since(entry.timestamp) >= entry.ttl

\* Get's expiry test: time.Since(entry.timestamp) > entry.ttl
Expired(entry) == Since(entry.timestamp) > entry.ttl

\* A plausible slip in Get: the expiry test is left out.
GetNoExpiry(key) ==
    IF key \notin DOMAIN data
    THEN [value |-> Nil, found |-> FALSE]
    ELSE [value |-> data[key].value, found |-> TRUE]

\* Cache.Get: the (value, found) pair it returns; the map is only read.
Get(key) ==
    IF key \notin DOMAIN data
    THEN [value |-> Nil, found |-> FALSE]
    ELSE IF Expired(data[key])
         THEN [value |-> Nil, found |-> FALSE]
         ELSE [value |-> data[key].value, found |-> TRUE]

\* A plausible slip in Set: an existing entry keeps its timestamp.
SetKeepsTimestamp(key, value, ttl) ==
    [k \in DOMAIN data \cup {key} |->
        IF k = key
        THEN CacheEntry(value,
                        IF key \in DOMAIN data THEN data[key].timestamp ELSE now,
                        ttl)
        ELSE data[k]]

\* A plausible slip in Set: the expired entries of the other keys are deleted
\* while the lock is held.
SetSweeps(key, value, ttl) ==
    [k \in {x \in DOMAIN data : ~Expired(data[x])} \cup {key} |->
        IF k = key THEN CacheEntry(value, now, ttl) ELSE data[k]]

\* Cache.Set: the map after c.data[key] = CacheEntry{value, time.Now(), ttl}.
Set(key, value, ttl) ==
    [k \in DOMAIN data \cup {key} |->
        IF k = key THEN CacheEntry(value, now, ttl) ELSE data[k]]

\* var cache = &Cache{data: make(map[string]CacheEntry)}: the empty map.
EmptyMap == [k \in {} |-> Nil]

-----------------------------------------------------------------------------
(* retryWithBackoff (src/ipv6request.go:526-564). *)

\* The goroutines that run request handlers.
Handlers == {"h1", "h2"}

\* http.StatusOK and the rate-limit status tested on line 547.
StatusOK == 200
StatusTooManyRequests == 429

\* The statuses the upstream answers with: 2xx, the rate limit, another 4xx, 5xx.
StatusCodes == {StatusOK, StatusTooManyRequests, 404, 500}

\* What fn() returns: an error with a nil response, or a response with a nil
\* error. The n-th call's response and error are named by n.
NoBody == [json |-> "none", items |-> <<>>]
TransportError == [kind |-> "err", status |-> 0, body |-> NoBody]
Response(status, body) == [kind |-> "resp", status |-> status, body |-> body]

\* The outcomes of a request whose body nobody reads.
BareOutcomes == {TransportError} \cup {Response(st, NoBody) : st \in StatusCodes}

\* math.Pow(2, float64(n)) converted to a whole number. Durations are counted
\* in seconds here; as int64 nanoseconds 2^n seconds fit for n <= 33, beyond
\* every attempt index the bounds reach.
Pow2(n) == 2 ^ n

\* A plausible slip: the transport-error wait is computed from attempt+1.
WaitAfterErrorFromOne(attempt) == Pow2(attempt + 1)

\* Line 540: time.Duration(math.Pow(2, float64(attempt))) * time.Second, in seconds.
WaitAfterError(attempt) == Pow2(attempt)

\* A plausible slip: the rate-limit wait is the transport-error wait.
WaitAfterRateLimitShort(attempt) == Pow2(attempt)

\* Line 553: time.Duration(math.Pow(2, float64(attempt+2))) * time.Second, in seconds.
WaitAfterRateLimit(attempt) == Pow2(attempt + 2)

\* Line 531: the loop test attempt < maxRetries.
LoopRuns(attempt, maxRetries) == attempt < maxRetries

\* A plausible slip: server errors are retried like the rate limit.
RetriedOrServerError(status) == status = StatusTooManyRequests \/ status >= 500

\* Line 547: the test resp.StatusCode == 429 that makes a response retried.
Retried(status) == status = StatusTooManyRequests

\* A plausible slip: the final 429 is dropped, nothing is returned for it.
FinalRateLimitedNil(n) == [resp |-> 0, err |-> 0]

\* A plausible slip: the final 429 is turned into an error by the fetcher.
FinalRateLimitedAsError(n) == [resp |-> 0, err |-> n]

\* Line 549: return resp, nil on the final attempt's 429 (n: the call that got it).
FinalRateLimited(n) == [resp |-> n, err |-> 0]

\* The frame of one retryWithBackoff call. resp and err are its locals (0 is
\* nil), outcomes what its fn() calls returned, waits the arguments of its
\* time.Sleep calls, closed the responses whose Body it closed, ret what it
\* returned.
IdleFetch ==
    [pc |-> "idle", maxRetries |-> 0, attempt |-> 0, resp |-> 0, err |-> 0,
     outcomes |-> <<>>, waits |-> <<>>, closed |-> {},
     ret |-> [resp |-> 0, err |-> 0]]

\* retryWithBackoff(fn, maxRetries) is entered.
NewFetch(maxRetries) == [IdleFetch EXCEPT !.pc = "call", !.maxRetries = maxRetries]

\* Lines 532-560 after fn() returned outcome o in frame f, where final is
\* the value of the test attempt == maxRetries-1.
Handle(f, o, final) ==
    LET n == Len(f.outcomes) + 1
        g == [f EXCEPT !.outcomes = Append(@, o),
                       !.resp = IF o.kind = "resp" THEN n ELSE 0,
                       !.err = IF o.kind = "err" THEN n ELSE 0]
    IN  IF o.kind = "err"
        THEN IF final
             THEN [g EXCEPT !.pc = "done", !.ret = [resp |-> 0, err |-> n]]
             ELSE [g EXCEPT !.pc = "sleep",
                            !.waits = Append(@, WaitAfterError(f.attempt))]
        ELSE IF Retried(o.status)
             THEN IF final
                  THEN [g EXCEPT !.pc = "done", !.ret = FinalRateLimited(n)]
                  ELSE [g EXCEPT !.pc = "sleep",
                                 !.closed = @ \cup {n},
                                 !.waits = Append(@, WaitAfterRateLimit(f.attempt))]
             ELSE [g EXCEPT !.pc = "done", !.ret = [resp |-> n, err |-> 0]]

\* The frame after fn() returned outcome o in frame f.
AfterCall(f, o) == Handle(f, o, f.attempt = f.maxRetries - 1)

\* The frame after the loop ended without a return: line 563, return resp, err.
AfterLoop(f) == [f EXCEPT !.pc = "done", !.ret = [resp |-> f.resp, err |-> f.err]]

\* A plausible slip: maxRetries counts the retries after the first attempt.
NextFramesOnceMore(f, outcomes) ==
    IF f.attempt <= f.maxRetries
    THEN {Handle(f, o, f.attempt = f.maxRetries) : o \in outcomes}
    ELSE {AfterLoop(f)}

\* The frames one pass from the loop head can end in, up to its return or its
\* time.Sleep call: fn() returns one of the outcomes.
NextFrames(f, outcomes) ==
    IF LoopRuns(f.attempt, f.maxRetries)
    THEN {AfterCall(f, o) : o \in outcomes}
    ELSE {AfterLoop(f)}

\* The loop head and one iteration of retryWithBackoff.
FnCall(h, outcomes) ==
    /\ fetch[h].pc = "call"
    /\ \E g \in NextFrames(fetch[h], outcomes) : fetch' = [fetch EXCEPT ![h] = g]

\* time.Sleep returns; continue, attempt++.
SleepReturn(h) ==
    /\ fetch[h].pc = "sleep"
    /\ fetch' = [fetch EXCEPT ![h] = [@ EXCEPT !.pc = "call", !.attempt = @ + 1]]

-----------------------------------------------------------------------------
(* The lookups (src/ipv6request.go:466-524, 566-657). *)

\* The clock of the server counts units of 30 minutes; the ttl
\* arguments of lines 608 (30*time.Minute), 654 (1*time.Hour) and 521
\* (2*time.Hour) in that unit.
TtlIP == 1
TtlPrefixes == 2
TtlDetails == 4

\* The maxRetries argument the three lookups pass (lines 479, 580, 629).
LookupRetries == 3

\* fmt.Sprintf("%d", n): the decimal digits of n, one token.
Itoa(n) == <<ToString(n)>>

\* A *ASNDetails value: the ASN and Name fields stand for the record.
Details(asn, name) == [type |-> "*ASNDetails", val |-> <<asn, name>>]

\* cacheKey := "ip_" + ip / "asn_" + asn / "asn_details_" + asn
CacheKey(kind, id) ==
    CASE kind = "ip" -> <<"ip_">> \o id
      [] kind = "prefixes" -> <<"asn_">> \o id
      [] kind = "details" -> <<"asn_", "details_">> \o id

\* The type each lookup asserts of a cached value: cached.([]string) on lines
\* 572 and 622, cached.(*ASNDetails) on line 472.
AssertedType(kind) == IF kind = "details" THEN "*ASNDetails" ELSE "[]string"

\* A plausible slip: every lookup storing with the ttl of lookupIPv6.
TtlAlike(kind) == TtlPrefixes

\* The ttl each lookup stores its result with.
Ttl(kind) ==
    CASE kind = "ip" -> TtlIP
      [] kind = "prefixes" -> TtlPrefixes
      [] kind = "details" -> TtlDetails

\* The bodies the upstream may send with a response: JSON that does not decode,
\* or the decoded array of bgpViewIPData.Data.Prefixes (asn, name, description
\* of each), of bgpViewData.Data.IPv6Prefixes (the prefix of each), or the one
\* bgpViewASNData.Data record (asn, name).
Malformed == [json |-> "malformed", items |-> <<>>]
Decoded(items) == [json |-> "ok", items |-> items]

Bodies(kind) ==
    CASE kind = "ip" ->
            {Malformed, Decoded(<<>>),
             Decoded(<<[asn |-> 64500, name |-> <<>>, description |-> <<"Example Org">>],
                       [asn |-> 64501, name |-> <<"Other">>, description |-> <<>>]>>),
             Decoded(<<[asn |-> 64501, name |-> <<"Other">>, description |-> <<"Other Org">>]>>)}
      [] kind = "prefixes" ->
            {Malformed, Decoded(<<>>), Decoded(<<<<"2001:db8::/32">>, <<"2001:db8:1::/48">>>>)}
      [] kind = "details" ->
            {Malformed, Decoded(<<[asn |-> 64500, name |-> <<"Example">>]>>)}

\* What httpClient.Get may return for the URL of a lookup of this kind.
Outcomes(kind) ==
    {TransportError}
        \cup {Response(st, NoBody) : st \in {StatusTooManyRequests, 500}}
        \cup {Response(StatusOK, b) : b \in Bodies(kind)}

\* What a lookup returns: a value (Nil when it failed) and the class of its
\* error ("" is the nil error).
Returned(value, err) == [panic |-> FALSE, value |-> value, err |-> err, store |-> FALSE]
Stored(value) == [panic |-> FALSE, value |-> value, err |-> "", store |-> TRUE]
Panic == [panic |-> TRUE, value |-> Nil, err |-> "", store |-> FALSE]

\* The cache-hit path of a lookup (lines 471-473, 571-574, 621-623): the
\* unchecked type assertion panics on a value of another dynamic type, and
\* result[0], result[1] on a slice shorter than two.
OnHit(kind, cached) ==
    IF cached.type # AssertedType(kind) THEN Panic
    ELSE IF kind = "ip" /\ Len(cached.val) < 2 THEN Panic
    ELSE Returned(cached, "")

\* A plausible slip: lookupIPv6 treating an empty prefix array as lookupASNByIP
\* does, as an error.
OnDecodedEmptyIsError(kind, items) ==
    CASE kind = "ip" ->
            IF Len(items) > 0
            THEN Stored(Strings(<<Itoa(items[1].asn),
                                  IF items[1].name = <<>>
                                  THEN items[1].description
                                  ELSE items[1].name>>))
            ELSE Returned(Nil, "notfound")
      [] kind = "prefixes" ->
            IF Len(items) > 0 THEN Stored(Strings(items))
            ELSE Returned(Nil, "notfound")
      [] kind = "details" -> Stored(Details(Itoa(items[1].asn), items[1].name))

\* A plausible slip: lookupASNByIP preferring the description to the name.
OnDecodedDescription(kind, items) ==
    CASE kind = "ip" ->
            IF Len(items) > 0
            THEN Stored(Strings(<<Itoa(items[1].asn),
                                  IF items[1].description = <<>>
                                  THEN items[1].name
                                  ELSE items[1].description>>))
            ELSE Returned(Nil, "notfound")
      [] kind = "prefixes" -> Stored(Strings(items))
      [] kind = "details" -> Stored(Details(Itoa(items[1].asn), items[1].name))

\* A plausible slip: lookupASNByIP caching a pair of empty strings when the
\* upstream knows no prefix of the address.
OnDecodedCachesEmpty(kind, items) ==
    CASE kind = "ip" ->
            IF Len(items) > 0
            THEN Stored(Strings(<<Itoa(items[1].asn),
                                  IF items[1].name = <<>>
                                  THEN items[1].description
                                  ELSE items[1].name>>))
            ELSE Stored(Strings(<<<<>>, <<>>>>))
      [] kind = "prefixes" -> Stored(Strings(items))
      [] kind = "details" -> Stored(Details(Itoa(items[1].asn), items[1].name))

\* The decoded value of a 200 response (lines 498-518, 599-611, 648-651).
OnDecoded(kind, items) ==
    CASE kind = "ip" ->
            IF Len(items) > 0
            THEN Stored(Strings(<<Itoa(items[1].asn),
                                  IF items[1].name = <<>>
                                  THEN items[1].description
                                  ELSE items[1].name>>))
            ELSE Returned(Nil, "notfound")
      [] kind = "prefixes" -> Stored(Strings(items))
      [] kind = "details" -> Stored(Details(Itoa(items[1].asn), items[1].name))

\* A plausible slip: the miss path without the test for status 429.
OnFetchedNoRateLimit(kind, ret, outcomes) ==
    IF ret.err # 0 THEN Returned(Nil, "transport")
    ELSE IF ret.resp = 0 THEN Panic
    ELSE LET resp == outcomes[ret.resp]
         IN  IF resp.status # StatusOK
             THEN Returned(Nil, "status")
             ELSE IF resp.body.json # "ok"
                  THEN Returned(Nil, "parse")
                  ELSE OnDecoded(kind, resp.body.items)

\* A plausible slip: a response with another status than 200 taken for an
\* empty result, and cached as one.
OnFetchedCachesFailure(kind, ret, outcomes) ==
    IF ret.err # 0 THEN Returned(Nil, "transport")
    ELSE IF ret.resp = 0 THEN Panic
    ELSE LET resp == outcomes[ret.resp]
         IN  IF resp.status # StatusOK
             THEN Stored(CASE kind = "ip" -> Strings(<<<<>>, <<>>>>)
                           [] kind = "prefixes" -> Strings(<<>>)
                           [] kind = "details" -> Details(<<>>, <<>>))
             ELSE IF resp.body.json # "ok"
                  THEN Returned(Nil, "parse")
                  ELSE OnDecoded(kind, resp.body.items)

\* A plausible slip: the deferred Close written after the status test, so that
\* only a 200 response is closed.
ClosedAfterStatusTest(ret, outcomes) ==
    IF ret.err # 0 THEN {}
    ELSE IF outcomes[ret.resp].status # StatusOK THEN {}
    ELSE {ret.resp}

\* defer resp.Body.Close() (lines 484, 585, 634): the responses whose body the
\* lookup closes when it returns, after retryWithBackoff returned ret. The
\* defer statement follows the return on err != nil.
ClosedByLookup(ret, outcomes) ==
    IF ret.err # 0 THEN {} ELSE {ret.resp}

\* The miss path after retryWithBackoff returned ret, where outcomes are the
\* responses it received (lines 481-496, 582-597, 631-646).
OnFetched(kind, ret, outcomes) ==
    IF ret.err # 0 THEN Returned(Nil, "transport")
    ELSE IF ret.resp = 0 THEN Panic
    ELSE LET resp == outcomes[ret.resp]
         IN  IF resp.status # StatusOK
             THEN IF resp.status = 429
                  THEN Returned(Nil, "ratelimit")
                  ELSE Returned(Nil, "status")
             ELSE IF resp.body.json # "ok"
                  THEN Returned(Nil, "parse")
                  ELSE OnDecoded(kind, resp.body.items)

-----------------------------------------------------------------------------
(* formHandler (src/ipv6request.go:679-723). *)

\* pageData{}
EmptyPage ==
    [ASN |-> <<>>, Prefixes |-> <<>>, Error |-> "", SourceIP |-> <<>>,
     DetectedASN |-> <<>>, ASNName |-> <<>>, AutoDetected |-> FALSE,
     ASNDetails |-> Nil]

\* No request made yet.
NoOutcome == [kind |-> "none", status |-> 0, body |-> NoBody]

\* No lookup call yet.
NoLookup ==
    [kind |-> "none", id |-> <<>>, key |-> <<>>, hit |-> FALSE, seen |-> Nil,
     present |-> FALSE, entry |-> CacheEntry(Nil, 0, 0), calls |-> 0,
     final |-> NoOutcome, got |-> 0, panic |-> FALSE, value |-> Nil, err |-> ""]

\* History: how each lookup of the request ended, "none" while it has not.
NoneRan == [ip |-> "none", details |-> "none", prefixes |-> "none"]

\* The frame of a handler goroutine: where it is, the request (r.Method,
\* getClientIP(r), r.FormValue("asn")), data, and its lookup call (lk): the
\* lookup's kind, argument and key, what its Get returned (hit, seen), the
\* entry the map held under the key when it was called (present, entry), the
\* requests it made (calls), what the last of them returned (final), when it
\* had decoded the value it stores (got), and how it ended. ran is the
\* history of the request's lookups.
IdleHandler ==
    [pc |-> "idle", method |-> "GET", clientIP |-> <<>>, asn |-> <<>>,
     page |-> EmptyPage, lk |-> NoLookup, ran |-> NoneRan]

\* The requests: the method, the client IP getClientIP derives (it may be
\* empty) and the asn form value, which is any string.
Methods == {"GET", "POST"}
ClientIPs == {<<>>, <<"192.0.2.1">>}
ASNs == {<<"64500">>, <<"details_", "64500">>}

\* A plausible slip: the form pre-populated with the detected ASN whatever
\* the method.
AfterDetectPrefillsAlways(f) ==
    LET asn == IF f.page.AutoDetected THEN f.page.DetectedASN ELSE f.asn
    IN  IF f.method = "POST"
        THEN [f EXCEPT !.pc = "details", !.page.ASN = asn]
        ELSE [f EXCEPT !.pc = "done", !.page.ASN = asn]

\* Lines 697-716 once auto-detection is over: a POST goes on to the lookups
\* of the submitted asn, another method pre-populates the form.
AfterDetect(f) ==
    IF f.method = "POST"
    THEN [f EXCEPT !.pc = "details", !.page.ASN = f.asn]
    ELSE [f EXCEPT !.pc = "done",
                   !.page.ASN = IF f.page.AutoDetected
                                THEN f.page.DetectedASN ELSE @]

\* A plausible slip: formHandler reporting a failed auto-detection as the error
\* of the page and giving up the request.
AfterLookupFatalDetect(f, kind, r) ==
    CASE kind = "ip" ->
            IF r.err = ""
            THEN AfterDetect([f EXCEPT !.page.DetectedASN = r.value.val[1],
                                       !.page.ASNName = r.value.val[2],
                                       !.page.AutoDetected = TRUE])
            ELSE [f EXCEPT !.pc = "done", !.page.Error = r.err]
      [] kind = "details" ->
            [f EXCEPT !.pc = "prefixes",
                      !.page.ASNDetails = IF r.err = "" THEN r.value ELSE @]
      [] kind = "prefixes" ->
            IF r.err # ""
            THEN [f EXCEPT !.pc = "done", !.page.Error = r.err]
            ELSE [f EXCEPT !.pc = "done", !.page.Prefixes = r.value.val]

\* formHandler after the lookup of this kind returned r.
AfterLookup(f, kind, r) ==
    CASE kind = "ip" ->
            AfterDetect(IF r.err = ""
                        THEN [f EXCEPT !.page.DetectedASN = r.value.val[1],
                                       !.page.ASNName = r.value.val[2],
                                       !.page.AutoDetected = TRUE]
                        ELSE f)
      [] kind = "details" ->
            [f EXCEPT !.pc = "prefixes",
                      !.page.ASNDetails = IF r.err = "" THEN r.value ELSE @]
      [] kind = "prefixes" ->
            IF r.err # ""
            THEN [f EXCEPT !.pc = "done", !.page.Error = r.err]
            ELSE [f EXCEPT !.pc = "done", !.page.Prefixes = r.value.val]

\* The handler's frame after its lookup ended as r: a panic unwinds the
\* handler (net/http recovers it and drops the connection).
EndLookup(f, r) ==
    LET g == [f EXCEPT !.lk.panic = r.panic, !.lk.value = r.value, !.lk.err = r.err,
                       !.ran[f.lk.kind] = IF r.panic THEN "panic"
                                          ELSE IF r.err = "" THEN "ok" ELSE r.err]
    IN  IF r.panic THEN [g EXCEPT !.pc = "panicked"]
        ELSE AfterLookup(g, f.lk.kind, r)

\* A plausible slip: the ASN-keyed lookups called with the detected ASN when
\* there is one.
LookupArgPrefersDetected(f, kind) ==
    IF kind = "ip" THEN f.clientIP
    ELSE IF f.page.AutoDetected THEN f.page.DetectedASN ELSE f.asn

\* The argument formHandler passes to the lookup of this kind.
LookupArg(f, kind) == IF kind = "ip" THEN f.clientIP ELSE f.asn

\* The number of lookup calls formHandler makes for a request.
LookupsOf(method, clientIP) ==
    (IF clientIP # <<>> THEN 1 ELSE 0) + (IF method = "POST" THEN 2 ELSE 0)

\* A request arrives and formHandler runs up to its first lookup call.
Accept(h, method, clientIP, asn) ==
    /\ hd[h].pc \in {"idle", "done", "panicked"}
    /\ LET f == [IdleHandler EXCEPT !.method = method, !.clientIP = clientIP,
                                    !.asn = IF method = "POST" THEN asn ELSE <<>>,
                                    !.page.SourceIP = clientIP]
       IN  /\ hd' = [hd EXCEPT ![h] =
                     IF clientIP # <<>> THEN [f EXCEPT !.pc = "ip"]
                     ELSE AfterDetect(f)]
           /\ lookups + LookupsOf(method, clientIP) <= MaxLookups
           /\ lookups' = lookups + LookupsOf(method, clientIP)
    /\ UNCHANGED <<cacheVars, fetch, lockVars, req>>

\* Any request arrives.
Serve(h) ==
    \E method \in Methods, clientIP \in ClientIPs, asn \in ASNs :
        Accept(h, method, clientIP, asn)

\* A lookup is called: the cache is read; a hit returns (or panics), a miss
\* enters retryWithBackoff.
LookupCall(h) ==
    /\ hd[h].pc \in {"ip", "details", "prefixes"}
    /\ LET kind == hd[h].pc
           id == LookupArg(hd[h], kind)
           key == CacheKey(kind, id)
           got == Get(key)
           f == [hd[h] EXCEPT !.lk = [NoLookup EXCEPT !.kind = kind, !.id = id,
                                                      !.key = key, !.hit = got.found,
                                                      !.seen = got.value,
                                                      !.present = key \in DOMAIN data,
                                                      !.entry = IF key \in DOMAIN data
                                                                THEN data[key] ELSE @]]
       IN  IF got.found
           THEN /\ hd' = [hd EXCEPT ![h] = EndLookup(f, OnHit(kind, got.value))]
                /\ UNCHANGED fetch
           ELSE /\ hd' = [hd EXCEPT ![h] = [f EXCEPT !.pc = "fetch"]]
                /\ fetch' = [fetch EXCEPT ![h] = NewFetch(LookupRetries)]
    /\ UNCHANGED <<cacheVars, lookups, req, lockVars>>

\* The lookup's retryWithBackoff call runs one iteration. When that makes it
\* return, the lookup classifies the outcome: it returns an error to
\* formHandler, or it has decoded a value (at the time got) that it goes on
\* to store.
LookupFetch(h) ==
    /\ hd[h].pc = "fetch"
    /\ fetch[h].pc = "call"
    /\ \E g \in NextFrames(fetch[h], Outcomes(hd[h].lk.kind)) :
          IF g.pc = "done"
          THEN LET lk == hd[h].lk
                   r == OnFetched(lk.kind, g.ret, g.outcomes)
                   f == [hd[h] EXCEPT !.lk.calls = Len(g.outcomes),
                                      !.lk.final = g.outcomes[Len(g.outcomes)]]
               IN  /\ hd' = [hd EXCEPT ![h] =
                                IF r.store
                                THEN [f EXCEPT !.pc = "store", !.lk.value = r.value,
                                               !.lk.got = now]
                                ELSE EndLookup(f, r)]
                   /\ fetch' = [fetch EXCEPT ![h] = IdleFetch]
          ELSE /\ fetch' = [fetch EXCEPT ![h] = g]
               /\ UNCHANGED hd
    /\ UNCHANGED <<cacheVars, lookups, req, lockVars>>

\* The lookup calls cache.Set with the value it decoded and returns it to
\* formHandler (lines 521-523, 608-609, 654-656).
Store(h) ==
    /\ hd[h].pc = "store"
    /\ data' = Set(hd[h].lk.key, hd[h].lk.value, Ttl(hd[h].lk.kind))
    /\ hd' = [hd EXCEPT ![h] = EndLookup(hd[h], Stored(hd[h].lk.value))]
    /\ UNCHANGED <<now, last, fetch, lookups, req, lockVars>>

LookupStore(h) == Store(h) /\ UNCHANGED hist

\* The lookup's retryWithBackoff call comes back from a sleep.
LookupSleep(h) ==
    /\ hd[h].pc = "fetch"
    /\ SleepReturn(h)
    /\ UNCHANGED <<cacheVars, hd, lookups, req, lockVars>>

-----------------------------------------------------------------------------
(* getClientIP (src/ipv6request.go:441-464). *)

\* Header values and addresses are strings of one-character tokens.

\* strings.Index(s, c) and strings.LastIndex(s, c), counted from 1; 0 when c
\* does not occur in s.
Index(s, c) ==
    IF \E i \in 1..Len(s) : s[i] = c
    THEN CHOOSE i \in 1..Len(s) : s[i] = c /\ \A j \in 1..(i - 1) : s[j] # c
    ELSE 0
LastIndex(s, c) ==
    IF \E i \in 1..Len(s) : s[i] = c
    THEN CHOOSE i \in 1..Len(s) : s[i] = c /\ \A j \in (i + 1)..Len(s) : s[j] # c
    ELSE 0

\* strings.Split(s, ",")[0]: what precedes the first comma, all of s when it
\* has none.
FirstOfSplit(s) == IF Index(s, ",") = 0 THEN s ELSE SubSeq(s, 1, Index(s, ",") - 1)

\* strings.TrimSpace(s): s without its leading and trailing white space.
RECURSIVE TrimLeft(_)
TrimLeft(s) == IF s # <<>> /\ Head(s) = " " THEN TrimLeft(Tail(s)) ELSE s
RECURSIVE TrimRight(_)
TrimRight(s) ==
    IF s # <<>> /\ s[Len(s)] = " " THEN TrimRight(SubSeq(s, 1, Len(s) - 1)) ELSE s
TrimSpace(s) == TrimRight(TrimLeft(s))

\* net.SplitHostPort(hostport): the host and whether an error is returned.
\* The port follows the last colon; a host in brackets ends at the first
\* closing bracket, which the last colon must follow; a host without
\* brackets holds no colon; no bracket occurs anywhere else.
SplitHostPort(hostport) ==
    LET i == LastIndex(hostport, ":")
        end == Index(hostport, "]")
        bracketed == hostport # <<>> /\ hostport[1] = "["
        failed == [host |-> <<>>, err |-> TRUE]
        host == IF bracketed THEN SubSeq(hostport, 2, end - 1)
                ELSE SubSeq(hostport, 1, i - 1)
        \* hostport[j:] and hostport[k:], searched for stray brackets
        fromJ == IF bracketed THEN SubSeq(hostport, 2, Len(hostport)) ELSE hostport
        fromK == IF bracketed THEN SubSeq(hostport, end + 1, Len(hostport)) ELSE hostport
    IN  IF i = 0 THEN failed
        ELSE IF bracketed /\ end = 0 THEN failed
        ELSE IF bracketed /\ end + 1 # i THEN failed
        ELSE IF ~bracketed /\ Index(host, ":") # 0 THEN failed
        ELSE IF Index(fromJ, "[") # 0 THEN failed
        ELSE IF Index(fromK, "]") # 0 THEN failed
        ELSE [host |-> host, err |-> FALSE]

\* A plausible slip: X-Real-IP consulted before X-Forwarded-For.
getClientIPRealFirst(r) ==
    IF r.xrip # <<>> THEN TrimSpace(r.xrip)
    ELSE IF r.xff # <<>> THEN TrimSpace(FirstOfSplit(r.xff))
    ELSE IF SplitHostPort(r.remoteAddr).err THEN r.remoteAddr
    ELSE SplitHostPort(r.remoteAddr).host

\* getClientIP(r), where xff and xrip are the values of the two headers ("" for
\* a header that is not set) and remoteAddr is r.RemoteAddr. strings.Split
\* never returns an empty slice, so line 449 always holds.
getClientIP(r) ==
    IF r.xff # <<>> THEN TrimSpace(FirstOfSplit(r.xff))
    ELSE IF r.xrip # <<>> THEN TrimSpace(r.xrip)
    ELSE IF SplitHostPort(r.remoteAddr).err THEN r.remoteAddr
    ELSE SplitHostPort(r.remoteAddr).host

\* The strings of at most n tokens of S.
UpTo(S, n) == UNION {[1..m -> S] : m \in 0..n}

\* The requests a bare getClientIP call is made on.
ForwardedFors == UpTo({" ", ",", "1"}, MaxHeader)
RealIPs == {<<>>, <<" ">>, <<"2">>, <<" ", "2", " ">>}
RemoteAddrs ==
    {<<"3", ":", "8">>, <<"[", ":", ":", "3", "]", ":", "8">>, <<"3">>, <<>>,
     <<":", ":", "3">>, <<"[", ":", ":", "3", "]">>, <<"[", "3", ":", "8">>,
     <<"3", "]", ":", "8">>, <<":", "8">>, <<"3", ":">>}

NoRequest == [pc |-> "none", xff |-> <<>>, xrip |-> <<>>, remoteAddr |-> <<>>, ip |-> <<>>]

-----------------------------------------------------------------------------
(* The lock of the cache (src/ipv6request.go:28, 42-43, 58-59). *)

\* The goroutines that call the cache at the same time.
Callers == {"c1", "c2", "c3"}

\* c.mu, a sync.RWMutex: writer is the goroutine that has called Lock and not
\* yet Unlock, readers are the goroutines between RLock and RUnlock. Lock
\* first claims the mutex against the other writers and the readers to come,
\* then waits for the readers inside to leave; RLock waits while a writer has
\* claimed the mutex.
Unlocked == [writer |-> "none", readers |-> {}]
CanRLock(m) == m.writer = "none"
RLock(m, g) == [m EXCEPT !.readers = @ \cup {g}]
RUnlock(m, g) == [m EXCEPT !.readers = @ \ {g}]
CanClaim(m) == m.writer = "none"
Claim(m, g) == [m EXCEPT !.writer = g]
Drained(m) == m.readers = {}
Unlock(m, g) == [m EXCEPT !.writer = "none"]

\* A plausible slip: the unlock written before the last return only, so that
\* the early returns of Get keep the lock.
DeferredOnLastReturn(path) == path \in {"found", "stored"}

\* defer c.mu.RUnlock() (line 43), defer c.mu.Unlock() (line 59): the deferred
\* call runs on whichever path the function returns.
Deferred(path) == path \in {"absent", "expired", "found", "stored"}

\* A caller outside the cache.
IdleCall ==
    [pc |-> "idle", op |-> "none", key |-> <<>>, value |-> Nil, ttl |-> 0,
     path |-> "none", found |-> FALSE, result |-> Nil]

\* The arguments of the Set calls made on the locked cache.
LockedSets == {[key |-> <<"asn_", "64500">>, value |-> Strings(<<"p1">>), ttl |-> 1]}

\* The return path Get takes for key (lines 46-48, 50-52, 54).
GetPath(key) ==
    IF key \notin DOMAIN data THEN "absent"
    ELSE IF Expired(data[key]) THEN "expired"
    ELSE "found"

\* cache.Get(key) is called.
GetEnter(g) ==
    /\ call[g].pc = "idle"
    /\ \E key \in CacheKeys :
          call' = [call EXCEPT ![g] = [IdleCall EXCEPT !.pc = "RLock", !.op = "Get",
                                                       !.key = key]]
    /\ UNCHANGED <<cacheVars, fetch, hd, lookups, req, mu>>

\* c.mu.RLock() returns (line 42).
GetRLock(g) ==
    /\ call[g].pc = "RLock"
    /\ CanRLock(mu)
    /\ mu' = RLock(mu, g)
    /\ call' = [call EXCEPT ![g].pc = "read"]
    /\ UNCHANGED <<cacheVars, fetch, hd, lookups, req>>

\* Lines 45-54: the map and the clock are read and the result is decided.
GetBody(g) ==
    /\ call[g].pc = "read"
    /\ call' = [call EXCEPT ![g].pc = "return",
                            ![g].path = GetPath(call[g].key),
                            ![g].found = Get(call[g].key).found,
                            ![g].result = Get(call[g].key).value]
    /\ UNCHANGED <<cacheVars, fetch, hd, lookups, req, mu>>

\* Get returns: the deferred RUnlock runs.
GetReturn(g) ==
    /\ call[g].pc = "return"
    /\ call[g].op = "Get"
    /\ mu' = IF Deferred(call[g].path) THEN RUnlock(mu, g) ELSE mu
    /\ call' = [call EXCEPT ![g] = IdleCall]
    /\ UNCHANGED <<cacheVars, fetch, hd, lookups, req>>

\* cache.Set(key, value, ttl) is called.
SetEnter(g) ==
    /\ call[g].pc = "idle"
    /\ \E a \in LockedSets :
          call' = [call EXCEPT ![g] = [IdleCall EXCEPT !.pc = "Lock", !.op = "Set",
                                                       !.key = a.key,
                                                       !.value = a.value,
                                                       !.ttl = a.ttl]]
    /\ UNCHANGED <<cacheVars, fetch, hd, lookups, req, mu>>

\* c.mu.Lock() claims the mutex (line 58).
SetClaim(g) ==
    /\ call[g].pc = "Lock"
    /\ CanClaim(mu)
    /\ mu' = Claim(mu, g)
    /\ call' = [call EXCEPT ![g].pc = "drain"]
    /\ UNCHANGED <<cacheVars, fetch, hd, lookups, req>>

\* c.mu.Lock() returns once the readers have left (line 58).
SetLock(g) ==
    /\ call[g].pc = "drain"
    /\ Drained(mu)
    /\ call' = [call EXCEPT ![g].pc = "write"]
    /\ UNCHANGED <<cacheVars, fetch, hd, lookups, req, mu>>

\* Lines 61-65: the entry is written.
SetBody(g) ==
    /\ call[g].pc = "write"
    /\ data' = Set(call[g].key, call[g].value, call[g].ttl)
    /\ call' = [call EXCEPT ![g].pc = "return", ![g].path = "stored"]
    /\ UNCHANGED <<now, hist, last, fetch, hd, lookups, req, mu>>

\* Set returns: the deferred Unlock runs.
SetReturn(g) ==
    /\ call[g].pc = "return"
    /\ call[g].op = "Set"
    /\ mu' = IF Deferred(call[g].path) THEN Unlock(mu, g) ELSE mu
    /\ call' = [call EXCEPT ![g] = IdleCall]
    /\ UNCHANGED <<cacheVars, fetch, hd, lookups, req>>

-----------------------------------------------------------------------------
(* The bare cache, driven by arbitrary callers. *)

\* The last Set call made on key.
LastSet(key) == hist[key][Len(hist[key])]

\* The number of Set calls made on the keys of S.
RECURSIVE SetCalls(_)
SetCalls(S) ==
    IF S = {} THEN 0
    ELSE LET k == CHOOSE x \in S : TRUE
         IN  Len(hist[k]) + SetCalls(S \ {k})

NoCall == [op |-> "none", key |-> <<>>, value |-> Nil, found |-> FALSE]

CacheInit ==
    /\ data = EmptyMap
    /\ now = 0
    /\ hist = [k \in CacheKeys |-> <<>>]
    /\ last = NoCall
    /\ fetch = [h \in Handlers |-> IdleFetch]
    /\ hd = [h \in Handlers |-> IdleHandler]
    /\ lookups = 0
    /\ mu = Unlocked
    /\ call = [g \in Callers |-> IdleCall]
    /\ req = NoRequest

\* A caller runs cache.Set(key, value, ttl).
CacheSetOp ==
    \E key \in CacheKeys, value \in CacheValues, ttl \in 0..MaxTtl :
        /\ SetCalls(CacheKeys) < MaxSets
        /\ data' = Set(key, value, ttl)
        /\ hist' = [hist EXCEPT ![key] =
                        Append(@, [value |-> value, ttl |-> ttl, at |-> now])]
        /\ last' = [op |-> "Set", key |-> key, value |-> value, found |-> FALSE]
        /\ UNCHANGED <<now, fetch, hd, lookups, req, lockVars>>

\* A caller runs cache.Get(key) and receives (value, found).
CacheGetOp ==
    \E key \in CacheKeys :
        /\ last' = [op |-> "Get", key |-> key,
                    value |-> Get(key).value, found |-> Get(key).found]
        /\ UNCHANGED <<data, now, hist, fetch, hd, lookups, req, lockVars>>

\* Time passes.
Tick ==
    /\ now < MaxTime
    /\ now' = now + 1
    /\ last' = NoCall
    /\ UNCHANGED <<data, hist, fetch, hd, lookups, req, lockVars>>

CacheNext == CacheSetOp \/ CacheGetOp \/ Tick

SpecCache == CacheInit /\ [][CacheNext]_vars

-----------------------------------------------------------------------------
(* The cache called by concurrent goroutines. *)

LockInit ==
    /\ data = EmptyMap
    /\ now = 0
    /\ hist = [k \in CacheKeys |-> <<>>]
    /\ last = NoCall
    /\ fetch = [h \in Handlers |-> IdleFetch]
    /\ hd = [h \in Handlers |-> IdleHandler]
    /\ lookups = 0
    /\ mu = Unlocked
    /\ call = [g \in Callers |-> IdleCall]
    /\ req = NoRequest

LockNext ==
    \/ \E g \in Callers :
          \/ GetEnter(g) \/ GetRLock(g) \/ GetBody(g) \/ GetReturn(g)
          \/ SetEnter(g) \/ SetClaim(g) \/ SetLock(g) \/ SetBody(g) \/ SetReturn(g)
    \/ Tick

\* A call that can take a step takes one; a goroutine waiting in RLock or in
\* Lock is not passed over forever (sync.RWMutex admits the blocked readers
\* when the writer unlocks, and sync.Mutex hands the lock to a waiter that
\* starves). No call need ever be made and the clock need not advance.
LockFairness ==
    \A g \in Callers :
        /\ WF_vars(GetBody(g) \/ GetReturn(g) \/ SetLock(g) \/ SetBody(g) \/ SetReturn(g))
        /\ SF_vars(GetRLock(g))
        /\ SF_vars(SetClaim(g))

SpecLock == LockInit /\ [][LockNext]_vars /\ LockFairness

-----------------------------------------------------------------------------
(* A bare getClientIP call. *)

ClientIPInit ==
    /\ data = EmptyMap
    /\ now = 0
    /\ hist = [k \in CacheKeys |-> <<>>]
    /\ last = NoCall
    /\ fetch = [h \in Handlers |-> IdleFetch]
    /\ hd = [h \in Handlers |-> IdleHandler]
    /\ lookups = 0
    /\ mu = Unlocked
    /\ call = [g \in Callers |-> IdleCall]
    /\ \E xff \in ForwardedFors, xrip \in RealIPs, remoteAddr \in RemoteAddrs :
          req = [NoRequest EXCEPT !.pc = "called", !.xff = xff, !.xrip = xrip,
                                  !.remoteAddr = remoteAddr]

\* getClientIP runs and returns.
ClientIPCall ==
    /\ req.pc = "called"
    /\ req' = [req EXCEPT !.pc = "returned", !.ip = getClientIP(req)]
    /\ UNCHANGED <<cacheVars, fetch, hd, lookups, lockVars>>

SpecClientIP == ClientIPInit /\ [][ClientIPCall]_vars

-----------------------------------------------------------------------------
(* A bare retryWithBackoff call. *)

\* A bare retryWithBackoff call with any maxRetries >= 1.
RetryInit ==
    /\ data = EmptyMap
    /\ now = 0
    /\ hist = [k \in CacheKeys |-> <<>>]
    /\ last = NoCall
    /\ \E n \in 1..MaxAttempts :
          fetch = [h \in Handlers |-> IF h = "h1" THEN NewFetch(n) ELSE IdleFetch]
    /\ hd = [h \in Handlers |-> IdleHandler]
    /\ lookups = 0
    /\ mu = Unlocked
    /\ call = [g \in Callers |-> IdleCall]
    /\ req = NoRequest

RetryCall == FnCall("h1", BareOutcomes) /\ UNCHANGED <<cacheVars, hd, lookups, req, lockVars>>

RetrySleep == SleepReturn("h1") /\ UNCHANGED <<cacheVars, hd, lookups, req, lockVars>>

RetryNext == RetryCall \/ RetrySleep

SpecRetry == RetryInit /\ [][RetryNext]_vars

-----------------------------------------------------------------------------
(* The server: requests handled one after the other. *)

Init ==
    /\ data = EmptyMap
    /\ now = 0
    /\ hist = [k \in CacheKeys |-> <<>>]
    /\ last = NoCall
    /\ fetch = [h \in Handlers |-> IdleFetch]
    /\ hd = [h \in Handlers |-> IdleHandler]
    /\ lookups = 0
    /\ mu = Unlocked
    /\ call = [g \in Callers |-> IdleCall]
    /\ req = NoRequest

\* Time passes. The clock is read by the Get of LookupCall and by the Set of
\* LookupFetch only, and a Get that misses also misses later, so with one
\* handler every run has the reads of a run in which the clock advances
\* only right before a lookup is called.
Pass ==
    /\ \E h \in Handlers : hd[h].pc \in {"ip", "details", "prefixes"}
    /\ Tick

Next ==
    \/ Serve("h1")
    \/ LookupCall("h1")
    \/ LookupFetch("h1")
    \/ LookupSleep("h1")
    \/ LookupStore("h1")
    \/ Pass

Spec == Init /\ [][Next]_vars

-----------------------------------------------------------------------------
(* The server: requests handled at the same time. *)

\* Each request runs formHandler in a goroutine of its own. The Get of
\* LookupCall and the Set of Store are single steps: their critical
\* sections exclude each other (SpecLock). The requests are POSTs of one
\* ASN from clients whose address is not known, so that the lookups of two
\* requests use the same keys; the clock advances at any moment, up to
\* MaxConcTime.
ConcServe(h) == Accept(h, "POST", <<>>, <<"64500">>)

\* The lookup's Set call, entered in the history of the Set calls on its key.
ConcStore(h) ==
    /\ Store(h)
    /\ LET key == hd[h].lk.key
           made == IF key \in DOMAIN hist THEN hist[key] ELSE <<>>
           this == [value |-> hd[h].lk.value, ttl |-> Ttl(hd[h].lk.kind), at |-> now]
       IN  hist' = [k \in DOMAIN hist \cup {key} |->
                        IF k = key THEN Append(made, this) ELSE hist[k]]

\* Time passes, also between a response and the Set of its value, and between
\* the Set calls of two handlers.
ConcPass ==
    /\ now < MaxConcTime
    /\ Tick

ConcNext ==
    \/ \E h \in Handlers :
          \/ ConcServe(h)
          \/ LookupCall(h)
          \/ LookupFetch(h)
          \/ LookupSleep(h)
          \/ ConcStore(h)
    \/ ConcPass

SpecConc == Init /\ [][ConcNext]_vars

-----------------------------------------------------------------------------
(* Claims about the cache. *)

\* C1 as stated: after Set(k, v, ttl) with no later Set on k, Get(k) returns
\* (v, true) at any elapsed time t < ttl and (_, false) at any t >= ttl.
C1_AsStated ==
    (last.op = "Get" /\ hist[last.key] # <<>>) =>
        LET s == LastSet(last.key)
            t == now - s.at
        IN  /\ t < s.ttl => (last.found /\ last.value = s.value)
            /\ t >= s.ttl => ~last.found

\* C1 as amended: after Set(k, v, ttl) with no later Set on k, Get(k) returns
\* (v, true) at any elapsed time t <= ttl (t = ttl included) and (nil, false)
\* at any elapsed time t > ttl.
C1_TtlBoundary ==
    (last.op = "Get" /\ hist[last.key] # <<>>) =>
        LET s == LastSet(last.key)
            t == now - s.at
        IN  /\ t <= s.ttl => (last.found /\ last.value = s.value)
            /\ t > s.ttl => (~last.found /\ last.value = Nil)

\* A Get made exactly ttl after the Set, with ttl > 0, that hit.
C1_Witness ==
    /\ last.op = "Get"
    /\ hist[last.key] # <<>>
    /\ LastSet(last.key).ttl > 0
    /\ now - LastSet(last.key).at = LastSet(last.key).ttl
    /\ last.found

\* C2: Get(k) reports found = false if and only if k has no entry or the
\* entry's age strictly exceeds its ttl (the entry is visible exactly while
\* age <= ttl); a miss is the pair (nil, false) and a hit carries the entry's
\* value.
C2_FoundIff ==
    last.op = "Get" =>
        LET absent == last.key \notin DOMAIN data
            visible == ~absent /\ now - data[last.key].timestamp <= data[last.key].ttl
        IN  /\ last.found <=> visible
            /\ ~last.found => last.value = Nil
            /\ last.found => last.value = data[last.key].value

\* A Get on a key whose entry is in the map but older than its ttl: a miss.
C2_Witness ==
    /\ last.op = "Get"
    /\ last.key \in DOMAIN data
    /\ now - data[last.key].timestamp > data[last.key].ttl
    /\ ~last.found

\* The entry a Get of key observes, judged from the last Set call on key alone.
FromLastSet(key) ==
    LET s == LastSet(key)
    IN  IF now - s.at <= s.ttl
        THEN [value |-> s.value, found |-> TRUE]
        ELSE [value |-> Nil, found |-> FALSE]

\* C3: the cache holds one entry per key that was ever Set and none else, and
\* once a key has been Set twice or more its entry is exactly the one of the
\* last Set (value, ttl and the time of that Set) and every Get of it returns
\* what the last Set alone determines, whatever the earlier Sets were.
C3_Overwrite ==
    /\ DOMAIN data = {k \in CacheKeys : hist[k] # <<>>}
    /\ \A k \in CacheKeys :
          Len(hist[k]) >= 2 =>
              /\ data[k] = CacheEntry(LastSet(k).value, LastSet(k).at, LastSet(k).ttl)
              /\ Get(k) = FromLastSet(k)
              /\ (last.op = "Get" /\ last.key = k) =>
                    /\ last.value = FromLastSet(k).value
                    /\ last.found = FromLastSet(k).found

\* A Get of a key Set twice, where the first Set had another value and a
\* longer ttl under which it would still be visible, and the Get misses
\* because the second Set's ttl has run out.
C3_Witness ==
    /\ last.op = "Get"
    /\ Len(hist[last.key]) = 2
    /\ hist[last.key][1].value # hist[last.key][2].value
    /\ hist[last.key][1].ttl > hist[last.key][2].ttl
    /\ now - hist[last.key][1].at <= hist[last.key][1].ttl
    /\ ~last.found

-----------------------------------------------------------------------------
(* Claims about retryWithBackoff. *)

\* The frames of the retryWithBackoff calls that were entered.
Entered == {h \in Handlers : fetch[h].pc # "idle"}

IsError(o) == o.kind = "err"
Is429(o) == o.kind = "resp" /\ o.status = 429

\* C4: for every maxRetries N >= 1, retryWithBackoff invokes fn at most N
\* times whatever the outcomes, and when every attempt fails with a transport
\* error it has invoked fn exactly N times when it returns, and it returns
\* the last attempt's error with a nil response.
C4_RetryCount ==
    \A h \in Entered :
        LET f == fetch[h]
        IN  /\ Len(f.outcomes) <= f.maxRetries
            /\ (f.pc = "done" /\ \A i \in 1..Len(f.outcomes) : IsError(f.outcomes[i])) =>
                  /\ Len(f.outcomes) = f.maxRetries
                  /\ f.ret = [resp |-> 0, err |-> f.maxRetries]

\* A call with maxRetries = 3 that returned after three transport errors.
C4_Witness ==
    \E h \in Entered :
        /\ fetch[h].pc = "done"
        /\ fetch[h].maxRetries = 3
        /\ Len(fetch[h].outcomes) = 3
        /\ \A i \in 1..3 : IsError(fetch[h].outcomes[i])

\* C5: at the first attempt whose outcome is a response with a status other
\* than 429, retryWithBackoff returns that response with a nil error at once:
\* no wait follows it, its body is not closed by the fetcher and fn is not
\* invoked again, whatever the earlier attempts' outcomes were.
C5_NonRetryableReturns ==
    \A h \in Entered :
        LET f == fetch[h]
        IN  \A i \in 1..Len(f.outcomes) :
                (f.outcomes[i].kind = "resp" /\ f.outcomes[i].status # 429) =>
                    /\ i = Len(f.outcomes)
                    /\ f.pc = "done"
                    /\ f.ret = [resp |-> i, err |-> 0]
                    /\ Len(f.waits) = i - 1
                    /\ i \notin f.closed

\* A call that returned a 500 response on its third attempt, after a
\* transport error and a 429.
C5_Witness ==
    \E h \in Entered :
        /\ fetch[h].pc = "done"
        /\ Len(fetch[h].outcomes) = 3
        /\ IsError(fetch[h].outcomes[1])
        /\ Is429(fetch[h].outcomes[2])
        /\ fetch[h].outcomes[3] = Response(500, NoBody)

\* C6: whenever the final (N-th) attempt returns HTTP 429, retryWithBackoff
\* returns that response itself, its body not closed, with a nil error.
C6_Final429 ==
    \A h \in Entered :
        LET f == fetch[h]
            n == Len(f.outcomes)
        IN  (n = f.maxRetries /\ n >= 1 /\ Is429(f.outcomes[n])) =>
                /\ f.pc = "done"
                /\ f.ret = [resp |-> n, err |-> 0]
                /\ n \notin f.closed

\* A call with maxRetries = 3 whose three attempts all returned 429.
C6_Witness ==
    \E h \in Entered :
        /\ fetch[h].pc = "done"
        /\ fetch[h].maxRetries = 3
        /\ Len(fetch[h].outcomes) = 3
        /\ \A i \in 1..3 : Is429(fetch[h].outcomes[i])

\* C7: when the attempt with zero-based index a fails with a transport error
\* and a < N-1, the fetcher's sleep after it is exactly 2^a seconds (1, 2, 4
\* for a = 0, 1, 2), whatever the earlier outcomes; when a = N-1 it returns
\* the error and no sleep follows.
C7_ErrorBackoff ==
    \A h \in Entered :
        LET f == fetch[h]
        IN  \A i \in 1..Len(f.outcomes) :
                IsError(f.outcomes[i]) =>
                    LET a == i - 1
                    IN  IF a < f.maxRetries - 1
                        THEN /\ Len(f.waits) >= i
                             /\ f.waits[i] = 2 ^ a
                             /\ a = 0 => f.waits[i] = 1
                             /\ a = 1 => f.waits[i] = 2
                             /\ a = 2 => f.waits[i] = 4
                        ELSE /\ Len(f.waits) = a
                             /\ f.pc = "done"
                             /\ f.ret = [resp |-> 0, err |-> i]

\* A transport error on the third attempt (a = 2) of a call with
\* maxRetries = 4, after a 429 and a transport error, followed by its sleep.
C7_Witness ==
    \E h \in Entered :
        /\ fetch[h].maxRetries = 4
        /\ Len(fetch[h].outcomes) >= 3
        /\ Is429(fetch[h].outcomes[1])
        /\ IsError(fetch[h].outcomes[2])
        /\ IsError(fetch[h].outcomes[3])
        /\ Len(fetch[h].waits) >= 3

\* C8: when the attempt with zero-based index a returns HTTP 429 and a < N-1,
\* the fetcher closes that response's body and its sleep after it is exactly
\* 2^(a+2) seconds (4, 8, 16 for a = 0, 1, 2), strictly longer than the
\* transport-error wait 2^a, whatever the earlier outcomes.
C8_RateLimitBackoff ==
    \A h \in Entered :
        LET f == fetch[h]
        IN  \A i \in 1..Len(f.outcomes) :
                (Is429(f.outcomes[i]) /\ i - 1 < f.maxRetries - 1) =>
                    LET a == i - 1
                    IN  /\ i \in f.closed
                        /\ Len(f.waits) >= i
                        /\ f.waits[i] = 2 ^ (a + 2)
                        /\ f.waits[i] > 2 ^ a
                        /\ a = 0 => f.waits[i] = 4
                        /\ a = 1 => f.waits[i] = 8
                        /\ a = 2 => f.waits[i] = 16

\* A 429 on the third attempt (a = 2) of a call with maxRetries = 4, after a
\* transport error and a 429, followed by its sleep.
C8_Witness ==
    \E h \in Entered :
        /\ fetch[h].maxRetries = 4
        /\ Len(fetch[h].outcomes) >= 3
        /\ IsError(fetch[h].outcomes[1])
        /\ Is429(fetch[h].outcomes[2])
        /\ Is429(fetch[h].outcomes[3])
        /\ Len(fetch[h].waits) >= 3
        /\ 3 \in fetch[h].closed

\* The sleep made before attempt number k (attempts numbered from 1), k >= 2.
WaitBefore(f, k) == f.waits[k - 1]

\* C9 as stated: the wait before attempt number k, for k in 2..N, is 2^(k-1)
\* seconds when the preceding failure was a transport error and 2^(k+1)
\* seconds when it was a 429 response.
C9_AsStated ==
    \A h \in Entered :
        LET f == fetch[h]
        IN  \A k \in 2..f.maxRetries :
                Len(f.waits) >= k - 1 =>
                    /\ IsError(f.outcomes[k - 1]) => WaitBefore(f, k) = 2 ^ (k - 1)
                    /\ Is429(f.outcomes[k - 1]) => WaitBefore(f, k) = 2 ^ (k + 1)

\* C9 as amended: the wait before attempt number k (numbered from 1), for k
\* in 2..N, is 2^(k-2) seconds when the preceding failure was a transport
\* error and 2^k seconds when it was a 429 response.
C9_Schedule ==
    \A h \in Entered :
        LET f == fetch[h]
        IN  \A k \in 2..f.maxRetries :
                Len(f.waits) >= k - 1 =>
                    /\ IsError(f.outcomes[k - 1]) => WaitBefore(f, k) = 2 ^ (k - 2)
                    /\ Is429(f.outcomes[k - 1]) => WaitBefore(f, k) = 2 ^ k

\* Attempt number 3 of a call with maxRetries = 3 is about to be made after
\* a transport error on attempt 1 and a 429 on attempt 2.
C9_Witness ==
    \E h \in Entered :
        /\ fetch[h].maxRetries = 3
        /\ fetch[h].pc = "call"
        /\ fetch[h].attempt = 2
        /\ IsError(fetch[h].outcomes[1])
        /\ Is429(fetch[h].outcomes[2])

-----------------------------------------------------------------------------
(* Claims about the lookups. *)

\* The handlers whose latest lookup call has ended.
Ended == {h \in Handlers : hd[h].lk.kind # "none" /\ hd[h].pc \notin {"fetch", "store"}}

\* C10: for each of the three lookups, when the cache holds an unexpired
\* entry under the lookup's key, the lookup returns that cached value with a
\* nil error, makes no request to the upstream, and leaves the entry as it is.
C10_HitSkipsNetwork ==
    \A h \in Ended :
        LET lk == hd[h].lk
        IN  lk.hit =>
                /\ ~lk.panic
                /\ lk.err = ""
                /\ lk.value = lk.seen
                /\ lk.value = lk.entry.value
                /\ lk.calls = 0
                /\ data[lk.key] = lk.entry

\* The handlers whose latest lookup call has ended after a cache miss.
Missed == {h \in Ended : ~hd[h].lk.hit}

\* The last response of a lookup was a 200 whose body decoded.
Fetched200(lk) ==
    /\ lk.final.kind = "resp"
    /\ lk.final.status = 200
    /\ lk.final.body.json = "ok"

\* The key prefix and the ttl (in units of 30 minutes) of each operation.
KeyPrefix(kind) ==
    CASE kind = "ip" -> <<"ip_">>
      [] kind = "prefixes" -> <<"asn_">>
      [] kind = "details" -> <<"asn_details_">>
HalfHours(kind) ==
    CASE kind = "ip" -> 1
      [] kind = "prefixes" -> 2
      [] kind = "details" -> 4

\* Two strings are equal when their tokens concatenate to the same text: the
\* one token "asn_details_" is the two tokens "asn_", "details_".
Text(str) ==
    IF Len(str) > 0 /\ str[1] = "asn_details_"
    THEN <<"asn_", "details_">> \o Tail(str)
    ELSE str

\* C11: when a lookup misses the cache and its fetch ends in status 200 with a
\* body that decodes (and, for IP->ASN, a non-empty prefix list), the lookup
\* has stored the value it returns under its key ("ip_"+ip, "asn_"+asn,
\* "asn_details_"+asn) with a ttl of 30 minutes, 1 hour, 2 hours respectively.
C11_StoreOnSuccess ==
    \A h \in Missed :
        LET lk == hd[h].lk
        IN  Fetched200(lk) /\ (lk.kind = "ip" => Len(lk.final.body.items) > 0) =>
                /\ ~lk.panic
                /\ lk.err = ""
                /\ lk.value # Nil
                /\ lk.key = Text(KeyPrefix(lk.kind) \o lk.id)
                /\ lk.key \in DOMAIN data
                /\ data[lk.key].value = lk.value
                /\ data[lk.key].ttl = HalfHours(lk.kind)
                /\ data[lk.key].timestamp <= now

\* A details lookup has stored its result for two hours, after the IP->ASN
\* lookup of the request stored its own for 30 minutes.
C11_Witness ==
    \E h \in Missed :
        /\ hd[h].lk.kind = "details"
        /\ Fetched200(hd[h].lk)
        /\ data[hd[h].lk.key].ttl = 4
        /\ <<"ip_", "192.0.2.1">> \in DOMAIN data
        /\ data[<<"ip_", "192.0.2.1">>].ttl = 1

\* How a lookup ended.
Class(lk) ==
    IF lk.panic THEN "panic" ELSE IF lk.err = "" THEN "success" ELSE lk.err

\* The class the outcome of the fetch calls for.
ClassOf(kind, o) ==
    IF o.kind = "err" THEN "transport"
    ELSE IF o.status = 429 THEN "ratelimit"
    ELSE IF o.status # 200 THEN "status"
    ELSE IF o.body.json # "ok" THEN "parse"
    ELSE IF kind = "ip" /\ o.body.items = <<>> THEN "notfound"
    ELSE "success"

\* C12: on a cache miss every lookup ends in exactly one of success, transport
\* error, rate-limit error (status 429), status-code error (another non-200
\* status), parse error (200 with a body that does not decode) and, for
\* IP->ASN only, not found; a lookup returns a value exactly when it succeeds.
C12_Classification ==
    \A h \in Missed :
        LET lk == hd[h].lk
        IN  /\ Class(lk) = ClassOf(lk.kind, lk.final)
            /\ Class(lk) = "notfound" => lk.kind = "ip"
            /\ Class(lk) = "ratelimit" <=> lk.final.status = 429
            /\ Class(lk) = "status" <=> lk.final.status = 500
            /\ lk.value # Nil <=> Class(lk) = "success"

\* A lookup that made all three requests and got 429 for the last one ended
\* in the rate-limit error.
C12_Witness ==
    \E h \in Missed :
        /\ hd[h].lk.calls = 3
        /\ hd[h].lk.final.status = 429
        /\ hd[h].lk.err = "ratelimit"

\* C13: an ASN->prefixes lookup whose response is a 200 with an empty prefix
\* array returns the empty list with a nil error and caches it; a later
\* ASN->prefixes lookup that hits a cached empty list returns the empty list
\* with a nil error; otherwise the list returned holds the prefix strings of
\* the response in their order.
C13_EmptyIsSuccess ==
    \A h \in Ended :
        LET lk == hd[h].lk
        IN  lk.kind = "prefixes" =>
                /\ ~lk.hit /\ Fetched200(lk) =>
                        /\ lk.err = ""
                        /\ ~lk.panic
                        /\ lk.value.type = "[]string"
                        /\ lk.value.val = lk.final.body.items
                        /\ lk.key \in DOMAIN data
                        /\ data[lk.key].value = lk.value
                /\ lk.hit /\ lk.seen = Strings(<<>>) =>
                        /\ lk.err = ""
                        /\ ~lk.panic
                        /\ lk.value = Strings(<<>>)
                        /\ hd[h].pc = "done" => /\ hd[h].page.Error = ""
                                                /\ hd[h].page.Prefixes = <<>>

\* An ASN->prefixes lookup hit the empty list an earlier one had cached.
C13_Witness ==
    \E h \in Ended :
        /\ hd[h].lk.kind = "prefixes"
        /\ hd[h].lk.hit
        /\ hd[h].lk.seen = Strings(<<>>)
        /\ hd[h].lk.err = ""

\* C14: the IP->ASN lookup returns the ASN of the first prefix of the response
\* and, as the name, that prefix's name, or its description when and only when
\* the name is empty; a later cache hit returns the same pair.
C14_FirstPrefix ==
    \A h \in Ended :
        LET lk == hd[h].lk
            first == lk.final.body.items[1]
        IN  lk.kind = "ip" =>
                /\ ~lk.hit /\ Fetched200(lk) /\ lk.final.body.items # <<>> =>
                        /\ lk.err = ""
                        /\ lk.value.val[1] = <<ToString(first.asn)>>
                        /\ first.name = <<>> => lk.value.val[2] = first.description
                        /\ first.name # <<>> => lk.value.val[2] = first.name
                        /\ Len(lk.value.val) = 2
                /\ lk.hit =>
                        /\ lk.err = ""
                        /\ ~lk.panic
                        /\ lk.value = lk.entry.value
                        /\ data[lk.key] = lk.entry
                /\ lk.err = "" /\ ~lk.panic =>
                        /\ hd[h].page.DetectedASN = lk.value.val[1]
                        /\ hd[h].page.ASNName = lk.value.val[2]

\* Both cases of the name: a response whose first prefix has no name gave the
\* description, and a later hit gave a pair whose name is a prefix's name.
C14_Witness ==
    \E h \in Ended :
        /\ hd[h].lk.kind = "ip"
        /\ hd[h].lk.hit
        /\ hd[h].page.DetectedASN = <<"64501">>
        /\ hd[h].page.ASNName = <<"Other">>

\* C15: an IP->ASN lookup whose response is a 200 with an empty prefix list
\* ends in the not-found error with an empty ASN and name and stores nothing,
\* so that the next lookup of the address fetches again.
C15_NotFound ==
    \A h \in Missed :
        LET lk == hd[h].lk
        IN  lk.kind = "ip" /\ Fetched200(lk) /\ lk.final.body.items = <<>> =>
                /\ lk.err = "notfound"
                /\ lk.value = Nil
                /\ hd[h].page.DetectedASN = <<>>
                /\ hd[h].page.ASNName = <<>>
                /\ ~hd[h].page.AutoDetected
                /\ lk.key \in DOMAIN data <=> lk.present
                /\ lk.present => data[lk.key] = lk.entry
                /\ ~Get(lk.key).found

\* An IP->ASN lookup ended not found, in a later request than the first, and
\* the cache holds nothing under its key.
C15_Witness ==
    \E h \in Missed :
        /\ hd[h].lk.kind = "ip"
        /\ hd[h].lk.err = "notfound"
        /\ lookups >= 2
        /\ hd[h].lk.key \notin DOMAIN data

-----------------------------------------------------------------------------
(* Claims about formHandler. *)

\* The ways a lookup returns an error.
Failures == {"transport", "ratelimit", "status", "parse", "notfound"}

\* The handlers whose POST request is over: the page was rendered or the
\* handler was unwound.
Posted == {h \in Handlers : hd[h].method = "POST" /\ hd[h].pc \in {"done", "panicked"}}

\* C16: on a POST with a submitted ASN the details lookup and the prefixes
\* lookup are both performed; a failed details lookup leaves ASNDetails absent
\* and Error unset; Error is non-empty exactly when the prefixes lookup
\* failed, and Prefixes is assigned only when it succeeded.
C16_ErrorPolicy ==
    \A h \in Posted :
        LET f == hd[h]
        IN  /\ f.ran.details # "none"
            /\ f.ran.prefixes # "none"
            /\ f.ran.details # "ok" => f.page.ASNDetails = Nil
            /\ f.page.Error # "" <=> f.ran.prefixes # "ok"
            /\ f.page.Prefixes # <<>> => f.ran.prefixes = "ok"

\* The same policy holds of the requests none of whose lookups panics.
C16_PolicyOfReturningLookups ==
    \A h \in Posted :
        LET f == hd[h]
        IN  f.pc = "done" =>
                /\ f.ran.details \in Failures \cup {"ok"}
                /\ f.ran.prefixes \in Failures \cup {"ok"}
                /\ f.ran.details # "ok" => f.page.ASNDetails = Nil
                /\ f.ran.details = "ok" => f.page.ASNDetails.type = "*ASNDetails"
                /\ f.page.Error # "" <=> f.ran.prefixes \in Failures
                /\ f.page.Error # "" => f.page.Error = f.ran.prefixes
                /\ f.page.Prefixes # <<>> => f.ran.prefixes = "ok"

\* C17: a failed IP->ASN lookup leaves AutoDetected false and DetectedASN and
\* ASNName empty, never sets Error (which only the prefixes lookup sets), and
\* does not keep a POST from calling the details and the prefixes lookup;
\* AutoDetected is true exactly when the IP->ASN lookup of the request
\* succeeded.
C17_DetectionNonFatal ==
    \A h \in Handlers :
        LET f == hd[h]
        IN  /\ f.page.AutoDetected <=> f.ran.ip = "ok"
            /\ f.ran.ip # "ok" => f.page.DetectedASN = <<>> /\ f.page.ASNName = <<>>
            /\ f.ran.ip # "panic"
            /\ f.page.Error # "" => f.ran.prefixes = f.page.Error
            /\ f.ran.ip \in Failures /\ f.method = "POST" =>
                    /\ f.pc # "idle"
                    /\ f.ran.details = "none" =>
                            \/ f.pc = "details"
                            \/ f.pc \in {"fetch", "store"} /\ f.lk.kind = "details"
                    /\ f.pc = "done" => f.ran.prefixes # "none"

\* A POST whose auto-detection was rate-limited got its prefixes.
C17_Witness ==
    \E h \in Posted :
        /\ hd[h].ran.ip = "ratelimit"
        /\ hd[h].ran.prefixes = "ok"
        /\ hd[h].page.Prefixes # <<>>
        /\ hd[h].page.Error = ""
        /\ ~hd[h].page.AutoDetected

\* C18: whatever the requests (with any ASN and IP strings from the client)
\* and whatever the upstream answers, no lookup and no handler panics.
C18_NoPanic ==
    \A h \in Handlers :
        /\ hd[h].pc # "panicked"
        /\ ~hd[h].lk.panic
        /\ \A kind \in DOMAIN hd[h].ran : hd[h].ran[kind] # "panic"

-----------------------------------------------------------------------------
(* Claims about concurrent callers. *)

\* The callers inside the critical section of Get, and of Set.
InGet == {g \in Callers : call[g].op = "Get" /\ call[g].pc \in {"read", "return"}}
InSet == {g \in Callers : call[g].op = "Set" /\ call[g].pc \in {"write", "return"}}

\* A Set is alone in its critical section, and the lock is held by the calls
\* in progress and by nobody else: by no call that has returned.
LockHeldByCallsInProgress ==
    /\ \A g \in InSet : InSet = {g} /\ InGet = {}
    /\ mu.readers = InGet
    /\ \A g \in Callers :
          mu.writer = g <=> call[g].op = "Set" /\ call[g].pc \in {"drain", "write", "return"}
    /\ (\A g \in Callers : call[g].pc = "idle") => mu = Unlocked

\* C19: with concurrent Get and Set calls, a Set holds the lock exclusively
\* (no Get and no other Set is in its critical section at the same time)
\* while Gets may be inside together; every call releases the lock on every
\* return path, and every call that is made returns.
C19_LockDiscipline ==
    /\ []LockHeldByCallsInProgress
    /\ \A g \in Callers : (call[g].pc # "idle") ~> (call[g].pc = "idle")

\* Two Gets are inside together, one about to return on the expired path and
\* one on the absent path, while a Set waits for them to leave.
C19_Witness ==
    \E g1, g2, g3 \in Callers :
        /\ call[g1].pc = "return" /\ call[g1].path = "expired"
        /\ call[g2].pc = "return" /\ call[g2].path = "absent"
        /\ call[g3].pc = "drain"
        /\ mu.readers = {g1, g2}

\* The handlers whose lookup is fetching from the upstream.
Fetching == {h \in Handlers : hd[h].pc = "fetch"}

\* C20: two handlers that miss the cache for the same key at the same time
\* both fetch from the upstream, and each lookup ends with the result of its
\* own fetch: the class its last response calls for and, on success, the
\* prefixes of that response, which it has stored under the key.
C20_NoDeduplication ==
    /\ \A h \in Fetching :
          /\ ~hd[h].lk.hit
          /\ fetch[h].pc \in {"call", "sleep"}
          /\ fetch[h].attempt < 3
    /\ \A h \in Missed :
          LET lk == hd[h].lk
          IN  /\ lk.calls \in 1..3
              /\ Class(lk) = ClassOf(lk.kind, lk.final)
              /\ lk.kind = "prefixes" /\ Fetched200(lk) =>
                    /\ lk.value = Strings(lk.final.body.items)
                    /\ lk.key \in DOMAIN data
                    /\ data[lk.key].value.type = "[]string"
                    /\ data[lk.key].ttl = 2

\* Two fetches are in flight for the key of one ASN's prefixes, each having
\* made a request already.
C20_Witness ==
    \E g, h \in Fetching :
        /\ g # h
        /\ hd[g].lk.kind = "prefixes"
        /\ hd[g].lk.key = hd[h].lk.key
        /\ fetch[g].outcomes # <<>>
        /\ fetch[h].outcomes # <<>>

\* Two lookups of one ASN's prefixes that both found the key absent have both
\* ended in success, with different lists.
C20_BothCompleted ==
    \E g, h \in Missed :
        /\ g # h
        /\ hd[g].lk.kind = "prefixes"
        /\ hd[g].lk.key = hd[h].lk.key
        /\ ~hd[g].lk.present /\ ~hd[h].lk.present
        /\ hd[g].lk.err = "" /\ hd[h].lk.err = ""
        /\ hd[g].lk.value # hd[h].lk.value

-----------------------------------------------------------------------------
(* Claims about getClientIP. *)

\* t is s without the white space s begins and ends with.
Spaces(n) == [i \in 1..n |-> " "]
IsTrimOf(t, s) ==
    /\ t # <<>> => t[1] # " " /\ t[Len(t)] # " "
    /\ \E i, j \in 0..Len(s) : s = Spaces(i) \o t \o Spaces(j)

\* e is the first of the comma-separated entries of s.
IsFirstEntry(e, s) ==
    /\ Len(e) <= Len(s)
    /\ e = SubSeq(s, 1, Len(e))
    /\ \A i \in 1..Len(e) : e[i] # ","
    /\ Len(e) = Len(s) \/ s[Len(e) + 1] = ","

\* The hosts h for which the address a reads h:port or [h]:port, where the
\* port holds no colon, no bracket occurs in h or in the port, and no colon
\* occurs in an h that is not in brackets.
Without(s, C) == \A i \in 1..Len(s) : s[i] \notin C
HostsOf(a) ==
    {h \in {SubSeq(a, lo, hi) : lo \in 1..(Len(a) + 1), hi \in 0..Len(a)} :
        \E port \in {SubSeq(a, lo, Len(a)) : lo \in 1..(Len(a) + 1)} :
            /\ Without(port, {":", "[", "]"})
            /\ \/ a = h \o <<":">> \o port /\ Without(h, {":", "[", "]"})
               \/ a = <<"[">> \o h \o <<"]", ":">> \o port /\ Without(h, {"[", "]"})}

\* C21: getClientIP returns the trimmed first comma-separated entry of
\* X-Forwarded-For whenever that header is non-empty; otherwise the trimmed
\* X-Real-IP when that is non-empty; otherwise the host part of the peer
\* address, and the whole peer address when it does not split into host and
\* port. A later source has no influence when an earlier one is present.
C21_ClientIP ==
    req.pc = "returned" =>
        IF req.xff # <<>>
        THEN \E n \in 0..Len(req.xff) :
                /\ IsFirstEntry(SubSeq(req.xff, 1, n), req.xff)
                /\ IsTrimOf(req.ip, SubSeq(req.xff, 1, n))
        ELSE IF req.xrip # <<>>
        THEN IsTrimOf(req.ip, req.xrip)
        ELSE IF HostsOf(req.remoteAddr) = {}
        THEN req.ip = req.remoteAddr
        ELSE HostsOf(req.remoteAddr) = {req.ip}

\* A padded first entry of a forwarded-for list was returned though the
\* request had an X-Real-IP header too.
C21_Witness ==
    /\ req.pc = "returned"
    /\ req.xff = <<" ", "1", ",">>
    /\ req.xrip = <<"2">>
    /\ req.ip = <<"1">>

-----------------------------------------------------------------------------
(* Claims about what the lookups do to the cache. *)

\* The lookup call of handler h returns in this step.
Ending(h) ==
    /\ hd[h].pc \in {"ip", "details", "prefixes", "fetch", "store"}
    /\ hd'[h] # hd[h]
    /\ hd'[h].pc \notin {"fetch", "store"}

\* A lookup that ends in a failure leaves the map as it is, and the map
\* changes only under the key of a lookup that ends in success after a 200
\* response that decoded.
FailedLookupsLeaveCache ==
    /\ \A h \in Handlers :
          Ending(h) /\ hd'[h].lk.err \in Failures => data' = data
    /\ data' # data =>
          \E h \in Handlers :
              LET lk == hd'[h].lk
              IN  /\ Ending(h)
                  /\ ~lk.hit
                  /\ lk.err = ""
                  /\ Fetched200(lk)
                  /\ DOMAIN data' = DOMAIN data \cup {lk.key}
                  /\ \A k \in DOMAIN data \ {lk.key} : data'[k] = data[k]
                  /\ data'[lk.key].value = lk.value

\* C22: when a lookup ends in a failure (transport error, 429, another
\* non-200 status, parse error, not found) no entry is created, overwritten
\* or refreshed; the map, empty at first, gets an entry for a key only when a
\* lookup for that key succeeds against the upstream.
C22_FailuresLeaveCache == [][FailedLookupsLeaveCache]_vars

\* A lookup failed whose key held an expired entry, and the entry is as it was.
C22_Witness ==
    \E h \in Missed :
        /\ hd[h].lk.err \in Failures
        /\ hd[h].lk.present
        /\ data[hd[h].lk.key] = hd[h].lk.entry

\* C23: the keys "ip_"+x, "asn_"+a and "asn_details_"+b of the three kinds
\* of lookup are pairwise distinct whatever the strings x, a, b of the
\* client, so that every value a lookup reads from the cache is of the type it
\* asserts ([]string for prefixes and IP results, *ASNDetails for details).
C23_KeysDisjoint ==
    /\ \A k \in DOMAIN data :
          \A x \in ClientIPs, a \in ASNs, b \in ASNs :
              /\ ~(k = CacheKey("ip", x) /\ k = CacheKey("prefixes", a))
              /\ ~(k = CacheKey("ip", x) /\ k = CacheKey("details", b))
              /\ ~(k = CacheKey("prefixes", a) /\ k = CacheKey("details", b))
    /\ \A h \in Handlers :
          hd[h].lk.hit => hd[h].lk.seen.type = AssertedType(hd[h].lk.kind)

\* Of C23 this much holds: the keys of the IP->ASN lookup are those of no
\* other lookup, and its hits read a pair of strings.
IPKeysApart ==
    /\ \A x \in ClientIPs, a \in ASNs :
          /\ CacheKey("ip", x) # CacheKey("prefixes", a)
          /\ CacheKey("ip", x) # CacheKey("details", a)
    /\ \A h \in Handlers :
          hd[h].lk.hit /\ hd[h].lk.kind = "ip" =>
              /\ hd[h].lk.seen.type = "[]string"
              /\ Len(hd[h].lk.seen.val) = 2

\* A lookup read a value of the other kind from the cache.
CrossKindHit ==
    \E h \in Handlers :
        /\ hd[h].lk.hit
        /\ hd[h].lk.seen.type # AssertedType(hd[h].lk.kind)

\* What a step of the callers or of the clock may do to the map: no key
\* leaves it, a Get and the passing of time change nothing, and an entry
\* changes only in a Set call on its key.
OnlySetWrites ==
    /\ DOMAIN data \subseteq DOMAIN data'
    /\ last'.op = "Get" => data' = data
    /\ now' # now => data' = data
    /\ \A k \in DOMAIN data :
          data'[k] # data[k] =>
              /\ last'.op = "Set"
              /\ last'.key = k
              /\ Len(hist'[k]) = Len(hist[k]) + 1

\* C24: Cache.Get never modifies the cache (an expired entry is reported
\* absent but stays in the map with its value, timestamp and ttl), nothing
\* sweeps the map and no operation removes a key: the set of keys only grows
\* and an entry changes only through a Set on its own key.
C24_LazyExpiry == [][OnlySetWrites]_vars

\* A Get reported an expired entry absent; the entry is still as its Set call
\* wrote it, next to the entry of the other key.
C24_Witness ==
    /\ last.op = "Get"
    /\ ~last.found
    /\ DOMAIN data = CacheKeys
    /\ Expired(data[last.key])
    /\ data[last.key] = CacheEntry(LastSet(last.key).value, LastSet(last.key).at,
                                   LastSet(last.key).ttl)

\* The handlers whose latest lookup call found an expired entry under its key.
FoundExpired == {h \in Handlers : hd[h].lk.kind # "none" /\ hd[h].lk.present /\ ~hd[h].lk.hit}

\* A lookup that found an expired entry got nothing from Get and fetches; when
\* it ends in success the entry is the value it returns with a timestamp
\* past the expiry of the old one; when it fails it returns no value and the
\* entry is the expired one still.
ExpiredIsAbsent ==
    \A h \in FoundExpired :
        LET lk == hd[h].lk
        IN  /\ lk.seen = Nil
            /\ lk.entry.timestamp + lk.entry.ttl < now
            /\ h \in Ended => lk.calls >= 1
            /\ h \in Ended /\ lk.err = "" =>
                    /\ data[lk.key].value = lk.value
                    /\ data[lk.key].ttl = Ttl(lk.kind)
                    /\ data[lk.key].timestamp > lk.entry.timestamp + lk.entry.ttl
                    /\ data[lk.key].timestamp >= lk.got
                    /\ now - data[lk.key].timestamp <= Ttl(lk.kind) =>
                            Get(lk.key) = [value |-> lk.value, found |-> TRUE]
            /\ h \in Ended /\ lk.err # "" =>
                    /\ lk.value = Nil
                    /\ data[lk.key] = lk.entry
                    /\ ~Get(lk.key).found

\* A lookup call hits exactly when the entry under its key is no older than
\* its ttl, and then it is that entry's value it gets.
HitsWithinTtl ==
    \A h \in Handlers :
        hd[h].pc \in {"ip", "details", "prefixes"} /\ hd'[h] # hd[h] =>
            LET lk == hd'[h].lk
            IN  /\ lk.hit <=> /\ lk.key \in DOMAIN data
                              /\ now - data[lk.key].timestamp <= data[lk.key].ttl
                /\ lk.hit => lk.seen = data[lk.key].value
                /\ ~lk.hit => lk.seen = Nil /\ hd'[h].pc = "fetch"

\* C25: a lookup whose key has an entry older than its ttl behaves like a
\* lookup with no entry: it fetches from the upstream and on success
\* overwrites the entry with the fresh value and a new timestamp, so that the
\* lookups that follow within the ttl hit the cache; on failure the expired
\* entry is neither returned nor revived.
C25_Recompute == []ExpiredIsAbsent /\ [][HitsWithinTtl]_vars

\* A lookup that found an expired entry has replaced it with what it fetched.
C25_Witness ==
    \E h \in FoundExpired :
        /\ h \in Ended
        /\ hd[h].lk.err = ""
        /\ data[hd[h].lk.key].value = hd[h].lk.value
        /\ data[hd[h].lk.key].timestamp > hd[h].lk.entry.timestamp + hd[h].lk.entry.ttl

\* The entry a Set call of the history wrote.
EntryOf(s) == CacheEntry(s.value, s.at, s.ttl)

\* C26: however concurrent successful lookups of one key interleave, every
\* entry a Get observes carries the value, timestamp and ttl of one single Set
\* call, and the entry in the map is the one the last Set call on its key
\* wrote, with the time of that Set call, which is not earlier than the
\* moment the lookup had its response.
C26_LastWriteWins ==
    /\ \A k \in DOMAIN data :
          /\ k \in DOMAIN hist
          /\ hist[k] # <<>>
          /\ data[k] = EntryOf(LastSet(k))
    /\ \A h \in Handlers :
          hd[h].lk.kind # "none" /\ hd[h].lk.present =>
              \E i \in 1..Len(hist[hd[h].lk.key]) :
                  hd[h].lk.entry = EntryOf(hist[hd[h].lk.key][i])
    /\ \A h \in Missed :
          hd[h].lk.err = "" =>
              \E i \in 1..Len(hist[hd[h].lk.key]) :
                  /\ hist[hd[h].lk.key][i].value = hd[h].lk.value
                  /\ hist[hd[h].lk.key][i].ttl = Ttl(hd[h].lk.kind)
                  /\ hist[hd[h].lk.key][i].at >= hd[h].lk.got

\* Two lookups of one ASN's prefixes have both stored; the one that had its
\* response first stored last, later than it had the response, and the entry
\* is its list with the time of its Set call.
C26_Witness ==
    \E g, h \in Missed :
        LET k == hd[h].lk.key
        IN  /\ g # h
            /\ hd[h].lk.kind = "prefixes"
            /\ hd[g].lk.key = k
            /\ hd[g].lk.err = "" /\ hd[h].lk.err = ""
            /\ hd[g].lk.value # hd[h].lk.value
            /\ Len(hist[k]) = 2
            /\ hist[k][1].value = hd[g].lk.value
            /\ hist[k][2].value = hd[h].lk.value
            /\ hd[h].lk.got <= hd[g].lk.got
            /\ hd[h].lk.got < hist[k][2].at
            /\ data[k] = CacheEntry(hd[h].lk.value, hist[k][2].at, 2)

-----------------------------------------------------------------------------
(* Claims about what retryWithBackoff hands to the lookups. *)

\* The retryWithBackoff calls that have returned.
Returned3 == {h \in Entered : fetch[h].pc = "done" /\ fetch[h].maxRetries = 3}

\* C27: for every maxRetries N >= 1 and every sequence of outcomes,
\* retryWithBackoff returns either a response (a non-nil one, of its last
\* call) with a nil error or an error with a nil response, never both and
\* never neither; so a lookup, which passes N = 3, reads the status and
\* closes the body of a response that is there.
C27_WellFormedResult ==
    \A h \in Entered :
        LET f == fetch[h]
        IN  f.pc = "done" =>
                /\ f.maxRetries >= 1
                /\ \/ /\ f.ret.resp = Len(f.outcomes)
                      /\ f.ret.err = 0
                      /\ f.outcomes[f.ret.resp].kind = "resp"
                   \/ /\ f.ret.err = Len(f.outcomes)
                      /\ f.ret.resp = 0
                      /\ f.outcomes[f.ret.err].kind = "err"
                /\ f.maxRetries = 3 =>
                      \A kind \in {"ip", "details", "prefixes"} :
                          ~OnFetched(kind, f.ret, f.outcomes).panic

\* A call with maxRetries = 3 returned the 500 response of its third request,
\* which followed a transport error and a 429.
C27_Witness ==
    \E h \in Returned3 :
        /\ IsError(fetch[h].outcomes[1])
        /\ Is429(fetch[h].outcomes[2])
        /\ fetch[h].ret = [resp |-> 3, err |-> 0]
        /\ fetch[h].outcomes[3].status = 500

\* The number of times the body of the n-th response is closed, by the
\* fetcher and by the lookup the fetcher returns to.
Closes(f, n) ==
    (IF n \in f.closed THEN 1 ELSE 0)
        + (IF f.pc = "done" /\ n \in ClosedByLookup(f.ret, f.outcomes) THEN 1 ELSE 0)

\* C28: every response obtained during a lookup has its body closed exactly
\* once: by the fetcher when it retries after a 429 that is not final,
\* otherwise by the lookup that receives the response (whatever its status);
\* none is closed twice and none is open when the lookup returns.
C28_ClosedOnce ==
    \A h \in Entered :
        LET f == fetch[h]
            n == Len(f.outcomes)
        IN  \A i \in 1..n :
                /\ Closes(f, i) <= 1
                /\ f.outcomes[i].kind = "err" => Closes(f, i) = 0
                /\ f.outcomes[i].kind = "resp" /\ (i < n \/ f.pc = "done") => Closes(f, i) = 1
                /\ i \in f.closed <=> Is429(f.outcomes[i]) /\ (i < n \/ f.pc # "done")
                /\ f.pc = "done" /\ f.outcomes[i].kind = "resp" /\ i \notin f.closed =>
                        i = n /\ f.ret.resp = n

\* The fetcher closed the 429 response of the first request, the second
\* request failed, and the lookup closes the 429 response of the third.
C28_Witness ==
    \E h \in Returned3 :
        /\ fetch[h].closed = {1}
        /\ Is429(fetch[h].outcomes[1])
        /\ IsError(fetch[h].outcomes[2])
        /\ Is429(fetch[h].outcomes[3])
        /\ ClosedByLookup(fetch[h].ret, fetch[h].outcomes) = {3}

-----------------------------------------------------------------------------
(* Claims about the order of formHandler's steps. *)

\* The lookup of this kind has been called by the request of frame f.
Started(f, kind) == f.ran[kind] # "none" \/ f.lk.kind = kind

\* The lookup of this kind has returned to formHandler, or unwound it.
Completed(f, kind) == f.ran[kind] # "none"

\* C29: within one request the IP->ASN lookup, which is called exactly when
\* the client IP is not empty, has completed (successfully or not) before an
\* ASN-keyed lookup starts, the details lookup has completed before the
\* prefixes lookup starts, and the ASN-keyed lookups are called with the
\* submitted ASN, never with the detected one.
C29_OrderInRequest ==
    \A h \in Handlers :
        LET f == hd[h]
        IN  /\ f.clientIP = <<>> => ~Started(f, "ip")
            /\ f.clientIP # <<>> /\ f.pc # "idle" /\ ~Started(f, "ip") => f.pc = "ip"
            /\ /\ f.clientIP # <<>>
               /\ Started(f, "details") \/ Started(f, "prefixes") \/ f.pc \in {"details", "prefixes"}
               => Completed(f, "ip")
            /\ Started(f, "prefixes") \/ f.pc = "prefixes" => Completed(f, "details")
            /\ f.lk.kind \in {"details", "prefixes"} =>
                    /\ f.lk.id = f.asn
                    /\ f.lk.key = CacheKey(f.lk.kind, f.asn)
            /\ f.lk.kind = "ip" => f.lk.id = f.clientIP

\* A POST whose auto-detection found another ASN than the submitted one is
\* in its prefixes lookup, called with the submitted ASN after the details
\* lookup failed.
C29_Witness ==
    \E h \in Handlers :
        LET f == hd[h]
        IN  /\ f.pc = "fetch"
            /\ f.lk.kind = "prefixes"
            /\ f.page.AutoDetected
            /\ f.page.DetectedASN # f.asn
            /\ f.lk.id = f.asn
            /\ f.ran.details \in Failures

\* C30: a request whose method is not POST runs neither the details nor the
\* prefixes lookup; its Prefixes, ASNDetails and Error stay empty and its ASN
\* field is the detected ASN when auto-detection succeeded, empty otherwise.
\* On a POST the ASN field is the submitted form value, also when
\* auto-detection succeeded.
C30_NonPost ==
    \A h \in Handlers :
        LET f == hd[h]
            detected == f.clientIP = <<>> \/ Completed(f, "ip")
        IN  /\ f.method # "POST" =>
                    /\ ~Started(f, "details") /\ ~Started(f, "prefixes")
                    /\ f.pc \notin {"details", "prefixes"}
                    /\ f.page.Prefixes = <<>>
                    /\ f.page.ASNDetails = Nil
                    /\ f.page.Error = ""
                    /\ (f.pc # "idle" /\ detected) =>
                            /\ f.pc = "done"
                            /\ f.page.ASN = IF f.ran.ip = "ok" THEN f.page.DetectedASN
                                            ELSE <<>>
                    /\ f.ran.ip = "ok" => f.page.AutoDetected /\ f.page.DetectedASN # <<>>
            /\ f.method = "POST" /\ detected => f.page.ASN = f.asn
            /\ ~detected => f.page.ASN = <<>>

\* A GET whose auto-detection succeeded was rendered with the detected ASN
\* in the form and without any ASN-keyed lookup.
C30_Witness ==
    \E h \in Handlers :
        LET f == hd[h]
        IN  /\ f.method = "GET"
            /\ f.pc = "done"
            /\ f.ran = [NoneRan EXCEPT !.ip = "ok"]
            /\ f.page.ASN = f.page.DetectedASN
            /\ f.page.ASN # <<>>

-----------------------------------------------------------------------------
(* lookupIPv6 of the earlier version (src/unnamed/part_000:89-119). *)

\* The earlier lookupIPv6: one httpClient.Get, no cache and no retry. o is
\* what the Get returned; the result is the prefix list or the class of the
\* error (a 429 is a status error like any other: lines 98-101).
lookupIPv6Plain(o) ==
    IF o.kind = "err" THEN Returned(Nil, "transport")
    ELSE IF o.status # StatusOK THEN Returned(Nil, "status")
    ELSE IF o.body.json # "ok" THEN Returned(Nil, "parse")
    ELSE Returned(Strings(o.body.items), "")

-----------------------------------------------------------------------------
(* Claims about the two versions of lookupIPv6. *)

\* The first attempt of a response the fetcher does not retry.
Decisive(o) == ~IsError(o) /\ ~Is429(o)

\* The lookupIPv6 call of handler h missed the cache and is about to make its
\* first request.
FirstAttempt(h) ==
    /\ hd[h].pc = "fetch"
    /\ hd[h].lk.kind = "prefixes"
    /\ fetch[h].pc = "call"
    /\ fetch[h].outcomes = <<>>

\* The first request of a lookupIPv6 call either is retried, after a
\* transport error or a 429, or it is the only request of the call, and then
\* the call goes on with what the earlier version returns for that response:
\* its prefix list, which it stores, or its class of error, which it returns.
FirstAttemptDecides ==
    \A h \in Handlers :
        FirstAttempt(h) /\ fetch'[h] # fetch[h] =>
            /\ ~hd[h].lk.hit
            /\ IF fetch'[h].pc # "idle"
               THEN /\ ~Decisive(fetch'[h].outcomes[1])
                    /\ hd'[h] = hd[h]
               ELSE LET lk == hd'[h].lk
                        plain == lookupIPv6Plain(lk.final)
                    IN  /\ Decisive(lk.final)
                        /\ lk.calls = 1
                        /\ lk.value = plain.value
                        /\ IF plain.err = ""
                           THEN hd'[h].pc = "store"
                           ELSE /\ lk.err = plain.err
                                /\ h \in {g \in Handlers : hd'[g].pc = "done"}

\* A lookupIPv6 call that missed the cache and whose only request was
\* answered decisively has returned what the earlier version returns.
ReturnsAsPlain ==
    \A h \in Missed :
        LET lk == hd[h].lk
            plain == lookupIPv6Plain(lk.final)
        IN  lk.kind = "prefixes" /\ lk.calls = 1 /\ Decisive(lk.final) =>
                /\ ~lk.panic
                /\ lk.value = plain.value
                /\ lk.err = plain.err
                /\ lk.err \in {"", "status", "parse"}
                /\ hd[h].page.Prefixes = plain.value.val

\* C31: from a cache without an unexpired entry under the ASN's key and an
\* upstream whose first answer is neither a transport error nor a 429, the
\* cached, retrying lookupIPv6 makes exactly one request and returns the
\* prefix list, or the class of failure (status, parse), that the earlier
\* uncached, non-retrying lookupIPv6 returns for the same response.
C31_RefinesPlain == []ReturnsAsPlain /\ [][FirstAttemptDecides]_vars

\* Over an expired entry, a lookupIPv6 call returned the two prefixes of the
\* only response it asked for.
C31_Witness ==
    \E h \in Missed :
        LET lk == hd[h].lk
        IN  /\ lk.kind = "prefixes"
            /\ lk.present
            /\ lk.calls = 1
            /\ lk.final.status = StatusOK
            /\ lk.value = lookupIPv6Plain(lk.final).value
            /\ Len(lk.value.val) = 2
            /\ hd[h].pc = "done"

=============================================================================
